---- MODULE Spec2Model ----
(***************************************************************************)
(* Model of src/src/App.js: the chat turn of the GenAI Stack front end.    *)
(* handleChatSubmit sends the workflow, reads the server-sent-event body   *)
(* chunk by chunk, splits it on blank lines, accumulates `data: ` records  *)
(* into the AI message and publishes it into chatHistory.  The loading     *)
(* flag is shared with handleBuildStack and handleFileUpload.              *)
(*                                                                         *)
(* Text is a sequence of one-character strings, so that split, trim,       *)
(* startsWith, substring and replace are computed on characters.           *)
(***************************************************************************)
EXTENDS Integers, Sequences, FiniteSets, TLC

VARIABLES
    nodes,        \* types of the nodes on the canvas (useNodesState)
    edges,        \* number of edges on the canvas (useEdgesState)
    query,        \* text of the chat input (useState(''))
    isLoading,    \* the shared loading flag (useState(false))
    chatHistory,  \* the messages shown in the chat modal
    pc,           \* position of every handleChatSubmit call
    stream,       \* the text the server sends as body of each call's response
    pos,          \* number of characters of stream the reader has delivered
    buffer,       \* local `buffer` of every call
    aiResponse,   \* local `aiResponse` of every call
    statusMsg,    \* local `statusMsg` of every call
    emitted,      \* history: parts[0 .. length-2] of every split, in order
    pubs,         \* history: the setChatHistory updates of every call
    cut,          \* history: a chunk of the call has ended inside a record
    uploads,      \* position of every handleFileUpload call
    builds        \* position of every handleBuildStack call

vars == <<nodes, edges, query, isLoading, chatHistory, pc, stream, pos, buffer,
          aiResponse, statusMsg, emitted, pubs, cut, uploads, builds>>

----------------------------------------------------------------------------
(* Bounds *)

MaxSessions == 2      \* calls of handleChatSubmit
MaxItems == 2         \* items a response body is made of
MaxUploads == 1       \* calls of handleFileUpload
MaxBuilds == 1        \* calls of handleBuildStack

Sessions == 1..MaxSessions
Uploads == 1..MaxUploads
Builds == 1..MaxBuilds

----------------------------------------------------------------------------
(* Characters and literals of the source *)

NL == "\n"
BS == "\\"

Delimiter == <<NL, NL>>
DataPrefix == <<"d", "a", "t", "a", ":", " ">>
StatusPrefix == <<"s", "t", "a", "t", "u", "s", ":", " ">>
FinalPrefix == <<"f", "i", "n", "a", "l", ":", " ">>
NoResponse == <<"N", "o", " ", "r", "e", "s", "p", "o", "n", "s", "e">>
NoResponseGenerated == <<"No response generated.">>
Greeting == <<"Hi! I am your GenAI Stack assistant. Build a flow and ask me anything.">>
API_BASE_URL == "http://localhost:8000"
ConnectError ==
    <<"Error connecting to backend. Make sure the server is running at ", API_BASE_URL>>
ErrorPrefix == "Error: "
FailedToProcess == <<"Failed to process request">>

NodeTypes == {"inputNode", "llmNode", "knowledgeNode", "outputNode"}

----------------------------------------------------------------------------
(* String functions of the language, on sequences of characters *)

IsSpace(c) == c \in {" ", NL, "\t", "\r"}

TrimStart(s) ==
    LET kept == {i \in 1..Len(s) : ~IsSpace(s[i])}
    IN  IF kept = {} THEN <<>>
        ELSE SubSeq(s, CHOOSE i \in kept : \A k \in kept : i <= k, Len(s))

TrimEnd(s) ==
    LET kept == {i \in 1..Len(s) : ~IsSpace(s[i])}
    IN  IF kept = {} THEN <<>>
        ELSE SubSeq(s, 1, CHOOSE i \in kept : \A k \in kept : i >= k)

\* String.prototype.trim
Trim(s) == TrimEnd(TrimStart(s))

\* String.prototype.startsWith
StartsWith(s, p) == Len(s) >= Len(p) /\ SubSeq(s, 1, Len(p)) = p

\* String.prototype.substring(n)
Substring(s, n) == SubSeq(s, n + 1, Len(s))

\* the least index from i on at which the delimiter starts, 0 when there is none
IndexOfDelimiter(s, i) ==
    LET hits == {j \in i..(Len(s) - 1) : s[j] = NL /\ s[j + 1] = NL}
    IN  IF hits = {} THEN 0 ELSE CHOOSE j \in hits : \A k \in hits : j <= k

\* s.split('\n\n'): the delimiter is searched from the left, matches do not
\* overlap; from is where the current segment starts.
RECURSIVE SplitFrom(_, _)
SplitFrom(s, from) ==
    LET j == IndexOfDelimiter(s, from)
    IN  IF j = 0 THEN <<SubSeq(s, from, Len(s))>>
        ELSE <<SubSeq(s, from, j - 1)>> \o SplitFrom(s, j + 2)

Split(s) == SplitFrom(s, 1)

\* s.replace(/\\n/g, '\n'): every backslash followed by n becomes a newline
RECURSIVE ReplaceEscapedNewlines(_)
ReplaceEscapedNewlines(s) ==
    IF s = <<>> THEN <<>>
    ELSE IF Len(s) >= 2 /\ s[1] = BS /\ s[2] = "n"
         THEN <<NL>> \o ReplaceEscapedNewlines(SubSeq(s, 3, Len(s)))
         ELSE <<s[1]>> \o ReplaceEscapedNewlines(Tail(s))

----------------------------------------------------------------------------
(* Response bodies the server may send *)

ItemDataA == DataPrefix \o <<"a">> \o Delimiter
ItemDataB == DataPrefix \o <<"b", BS, "n", "c">>
ItemFinalF == FinalPrefix \o <<"f">> \o Delimiter
ItemFinalNo == FinalPrefix \o NoResponse
ItemDataFinal == DataPrefix \o <<"c">> \o Delimiter \o FinalPrefix \o <<"g">>
ItemStatus == StatusPrefix \o <<"s">>
ItemPing == <<"p", "i", "n", "g", ":", " ", "k">>
ItemNewline == <<NL>>
ItemBlank == Delimiter
ItemStatusDone == StatusPrefix \o <<"t">> \o Delimiter
ItemDataEscapes == DataPrefix \o <<BS, BS, "n", BS, "t">> \o Delimiter

Items == {ItemDataA, ItemDataB, ItemFinalF, ItemFinalNo, ItemDataFinal, ItemStatus,
          ItemPing, ItemNewline, ItemBlank, ItemStatusDone, ItemDataEscapes}

\* the bodies made of at most k items
RECURSIVE Bodies(_)
Bodies(k) ==
    IF k = 0 THEN {<<>>}
    ELSE LET shorter == Bodies(k - 1)
         IN  shorter \cup {b \o i : b \in shorter, i \in Items}

\* the bodies of the calls that run next to one another
AppBodies == {ItemDataA}

Queries == {<<" ">>, <<"q">>}

----------------------------------------------------------------------------
(* validateWorkflow *)

\* a validation that does not look at the edges
ValidateWorkflowNoEdges ==
    /\ "inputNode" \in nodes
    /\ "outputNode" \in nodes
    /\ "llmNode" \in nodes

\* lines 153-179
ValidateWorkflow ==
    /\ "inputNode" \in nodes
    /\ "outputNode" \in nodes
    /\ "llmNode" \in nodes
    /\ edges # 0

----------------------------------------------------------------------------
(* The messages of chatHistory.  turn is a history label: the call that    *)
(* appended the entry (0 for the greeting).                                *)

UserMessage(s, text) ==
    [role |-> "user", content |-> text, isStreaming |-> FALSE, turn |-> s]

AiMessage(s, text, streaming) ==
    [role |-> "ai", content |-> text, isStreaming |-> streaming, turn |-> s]

\* the updater of lines 308-315 and of lines 344-351: the last entry is
\* replaced when it is an AI message, whoever appended it.  Updaters are
\* applied in the order of their calls; each is applied here at its call.
UpdateLast(prev, text, streaming) ==
    LET lastIdx == Len(prev)
    IN  IF lastIdx >= 1 /\ prev[lastIdx].role = "ai"
        THEN [prev EXCEPT ![lastIdx] = AiMessage(@.turn, text, streaming)]
        ELSE prev

\* history record of one update: the text, the flag, and the turn of the
\* entry it replaced (-1 when the update changed nothing)
Publication(prev, text, streaming) ==
    [text |-> text, streaming |-> streaming,
     target |-> IF Len(prev) >= 1 /\ prev[Len(prev)].role = "ai"
                THEN prev[Len(prev)].turn ELSE -1]

----------------------------------------------------------------------------
(* The record loop of handleChatSubmit *)

\* a buffer that forgets the unfinished record
KeepRemainderDropped(parts) == <<>>

\* a buffer that is trimmed before it is kept
KeepRemainderTrimmed(parts) == Trim(parts[Len(parts)])

\* line 297: the last part stays in the buffer
KeepRemainder(parts) == parts[Len(parts)]

\* an unescape that also turns backslash-t into a tab
RECURSIVE ReplaceEveryEscape(_)
ReplaceEveryEscape(s) ==
    IF s = <<>> THEN <<>>
    ELSE IF Len(s) >= 2 /\ s[1] = BS /\ s[2] = "n"
         THEN <<NL>> \o ReplaceEveryEscape(SubSeq(s, 3, Len(s)))
    ELSE IF Len(s) >= 2 /\ s[1] = BS /\ s[2] = "t"
         THEN <<"\t">> \o ReplaceEveryEscape(SubSeq(s, 3, Len(s)))
         ELSE <<s[1]>> \o ReplaceEveryEscape(Tail(s))

ContentOfEveryEscape(line) == ReplaceEveryEscape(Substring(line, 6))

\* line 306
ContentOf(line) == ReplaceEscapedNewlines(Substring(line, 6))

\* a final record accepted without the test for the sentinel
AcceptFinalNoSentinel(finalContent, ai) ==
    finalContent # <<>> /\ ai = <<>>

\* line 322
AcceptFinal(finalContent, ai) ==
    finalContent # <<>> /\ finalContent # NoResponse /\ ai = <<>>

\* line 337
AcceptFinalFlush(finalContent, ai) ==
    finalContent # <<>> /\ ai = <<>>

\* an iteration that publishes status records as well
ProcessLinePublishingStatus(st, part) ==
    LET line == Trim(part)
    IN  IF line = <<>> THEN st
        ELSE IF StartsWith(line, DataPrefix) THEN
            LET ai == st.aiResponse \o ContentOf(line)
            IN  [st EXCEPT !.aiResponse = ai,
                           !.chatHistory = UpdateLast(@, ai, TRUE),
                           !.pubs = Append(@, Publication(st.chatHistory, ai, TRUE))]
        ELSE IF StartsWith(line, StatusPrefix) THEN
            [st EXCEPT !.statusMsg = Substring(line, 8),
                       !.chatHistory = UpdateLast(@, st.aiResponse, TRUE),
                       !.pubs = Append(@, Publication(st.chatHistory, st.aiResponse, TRUE))]
        ELSE IF StartsWith(line, FinalPrefix) THEN
            LET finalContent == Trim(Substring(line, 7))
            IN  IF AcceptFinal(finalContent, st.aiResponse)
                THEN [st EXCEPT !.aiResponse = finalContent]
                ELSE st
        ELSE st

\* a record loop that shows the status text in the bubble
ProcessLineAppendingStatus(st, part) ==
    LET line == Trim(part)
    IN  IF line = <<>> THEN st
        ELSE IF StartsWith(line, DataPrefix) THEN
            LET ai == st.aiResponse \o ContentOf(line)
            IN  [st EXCEPT !.aiResponse = ai,
                           !.chatHistory = UpdateLast(@, ai, TRUE),
                           !.pubs = Append(@, Publication(st.chatHistory, ai, TRUE))]
        ELSE IF StartsWith(line, StatusPrefix) THEN
            [st EXCEPT !.statusMsg = Substring(line, 8),
                       !.aiResponse = @ \o Substring(line, 8)]
        ELSE IF StartsWith(line, FinalPrefix) THEN
            LET finalContent == Trim(Substring(line, 7))
            IN  IF AcceptFinal(finalContent, st.aiResponse)
                THEN [st EXCEPT !.aiResponse = finalContent]
                ELSE st
        ELSE st

\* lines 301-325, one iteration; st holds aiResponse, statusMsg, chatHistory
\* and the history of updates
ProcessLine(st, part) ==
    LET line == Trim(part)
    IN  IF line = <<>> THEN st
        ELSE IF StartsWith(line, DataPrefix) THEN
            LET ai == st.aiResponse \o ContentOf(line)
            IN  [st EXCEPT !.aiResponse = ai,
                           !.chatHistory = UpdateLast(@, ai, TRUE),
                           !.pubs = Append(@, Publication(st.chatHistory, ai, TRUE))]
        ELSE IF StartsWith(line, StatusPrefix) THEN
            [st EXCEPT !.statusMsg = Substring(line, 8)]
        ELSE IF StartsWith(line, FinalPrefix) THEN
            LET finalContent == Trim(Substring(line, 7))
            IN  IF AcceptFinal(finalContent, st.aiResponse)
                THEN [st EXCEPT !.aiResponse = finalContent]
                ELSE st
        ELSE st

\* lines 300-326: parts[0 .. length-2] in order
RECURSIVE ProcessParts(_, _, _)
ProcessParts(st, parts, i) ==
    IF i > Len(parts) - 1 THEN st
    ELSE ProcessParts(ProcessLine(st, parts[i]), parts, i + 1)

\* a flush that replaces the text by the last Content payload
FlushRemainderReplacing(ai, buf) ==
    LET line == Trim(buf)
    IN  IF line = <<>> THEN ai
        ELSE IF StartsWith(line, DataPrefix) THEN ContentOf(line)
        ELSE IF StartsWith(line, FinalPrefix) THEN
            LET finalContent == Trim(Substring(line, 7))
            IN  IF AcceptFinalFlush(finalContent, ai) THEN finalContent ELSE ai
        ELSE ai

\* lines 330-341: what is left in the buffer at the end of the stream
FlushRemainder(ai, buf) ==
    LET line == Trim(buf)
    IN  IF line = <<>> THEN ai
        ELSE IF StartsWith(line, DataPrefix) THEN ai \o ContentOf(line)
        ELSE IF StartsWith(line, FinalPrefix) THEN
            LET finalContent == Trim(Substring(line, 7))
            IN  IF AcceptFinalFlush(finalContent, ai) THEN finalContent ELSE ai
        ELSE ai

\* a resolution that keeps the fallback text whatever was accumulated
ResolveAlwaysFallback(ai) == NoResponseGenerated

\* line 348: aiResponse || 'No response generated.'
Resolve(ai) == IF ai # <<>> THEN ai ELSE NoResponseGenerated

----------------------------------------------------------------------------
(* handleChatSubmit, one action per stretch of code between two awaits *)

Consumed(s) == SubSeq(stream[s], 1, pos[s])

\* the locals and the reader of a call that has returned
Return(s) ==
    /\ pos' = [pos EXCEPT ![s] = 0]
    /\ emitted' = [emitted EXCEPT ![s] = <<>>]
    /\ buffer' = [buffer EXCEPT ![s] = <<>>]
    /\ aiResponse' = [aiResponse EXCEPT ![s] = <<>>]
    /\ statusMsg' = [statusMsg EXCEPT ![s] = <<>>]

\* a catch block after which the final update of line 343 still runs
CatchThenPublish(s) ==
    /\ chatHistory' = UpdateLast(Append(chatHistory, AiMessage(s, ConnectError, FALSE)),
                                 Resolve(aiResponse[s]), FALSE)
    /\ pubs' = [pubs EXCEPT ![s] =
                    Append(@, Publication(chatHistory, Resolve(aiResponse[s]), FALSE))]
    /\ isLoading' = FALSE
    /\ pc' = [pc EXCEPT ![s] = "Failed"]
    /\ Return(s)
    /\ UNCHANGED <<nodes, edges, query, stream, uploads, builds, cut>>

\* a catch block that leaves isLoading as it is
CatchKeepsLoading(s) ==
    /\ chatHistory' = Append(chatHistory, AiMessage(s, ConnectError, FALSE))
    /\ pc' = [pc EXCEPT ![s] = "Failed"]
    /\ Return(s)
    /\ UNCHANGED <<nodes, edges, query, isLoading, stream, pubs, uploads, builds, cut>>

\* lines 359-367: the catch block and the line after it
Catch(s) ==
    /\ chatHistory' = Append(chatHistory, AiMessage(s, ConnectError, FALSE))
    /\ isLoading' = FALSE
    /\ pc' = [pc EXCEPT ![s] = "Failed"]
    /\ Return(s)
    /\ UNCHANGED <<nodes, edges, query, stream, pubs, uploads, builds, cut>>

\* lines 233-269, up to the await of fetch.  The form is submitted with the
\* send button or the input, both disabled while isLoading (lines 651, 653).
ChatSubmit(s) ==
    /\ pc[s] = "idle"
    /\ \A t \in Sessions : t < s => pc[t] # "idle"
    /\ ~isLoading
    /\ IF Trim(query) = <<>> \/ ~ValidateWorkflow
       THEN UNCHANGED vars
       ELSE /\ chatHistory' = Append(chatHistory, UserMessage(s, query))
            /\ query' = <<>>
            /\ isLoading' = TRUE
            /\ pc' = [pc EXCEPT ![s] = "fetch"]
            /\ UNCHANGED <<nodes, edges, stream, pos, buffer, aiResponse, statusMsg,
                           emitted, pubs, uploads, builds, cut>>

\* lines 269-287: the response is ok; the placeholder is appended and the
\* first read is awaited
FetchOk(s) ==
    /\ pc[s] = "fetch"
    /\ chatHistory' = Append(chatHistory, AiMessage(s, <<>>, TRUE))
    /\ pc' = [pc EXCEPT ![s] = "read"]
    /\ UNCHANGED <<nodes, edges, query, isLoading, stream, pos, buffer, aiResponse,
                   statusMsg, emitted, pubs, uploads, builds, cut>>

\* lines 269, 275, 352-353: the response is not ok; its body is awaited
FetchNotOk(s) ==
    /\ pc[s] = "fetch"
    /\ pc' = [pc EXCEPT ![s] = "errjson"]
    /\ UNCHANGED <<nodes, edges, query, isLoading, chatHistory, stream, pos, buffer,
                   aiResponse, statusMsg, emitted, pubs, uploads, builds, cut>>

\* line 269 throws
FetchThrow(s) ==
    /\ pc[s] = "fetch"
    /\ Catch(s)

\* lines 353-357, 367: the error body is parsed; detail is error.detail,
\* empty when it is missing
ErrorBody(s, detail) ==
    /\ pc[s] = "errjson"
    /\ chatHistory' = Append(chatHistory,
           AiMessage(s, <<ErrorPrefix>> \o (IF detail # <<>> THEN detail
                                            ELSE FailedToProcess), FALSE))
    /\ isLoading' = FALSE
    /\ pc' = [pc EXCEPT ![s] = "Failed"]
    /\ Return(s)
    /\ UNCHANGED <<nodes, edges, query, stream, pubs, uploads, builds, cut>>

\* line 353 throws
ErrorBodyThrow(s) ==
    /\ pc[s] = "errjson"
    /\ Catch(s)

\* lines 287-327: a chunk of n characters is read and its records processed
ReadChunk(s, n) ==
    /\ pc[s] = "read"
    /\ pos[s] + n <= Len(stream[s])
    /\ LET chunk == SubSeq(stream[s], pos[s] + 1, pos[s] + n)
           parts == Split(buffer[s] \o chunk)
           st == ProcessParts([aiResponse |-> aiResponse[s],
                               statusMsg |-> statusMsg[s],
                               chatHistory |-> chatHistory,
                               pubs |-> pubs[s]], parts, 1)
       IN  /\ pos' = [pos EXCEPT ![s] = @ + n]
           /\ buffer' = [buffer EXCEPT ![s] = KeepRemainder(parts)]
           /\ emitted' = [emitted EXCEPT ![s] = @ \o SubSeq(parts, 1, Len(parts) - 1)]
           /\ aiResponse' = [aiResponse EXCEPT ![s] = st.aiResponse]
           /\ statusMsg' = [statusMsg EXCEPT ![s] = st.statusMsg]
           /\ chatHistory' = st.chatHistory
           /\ pubs' = [pubs EXCEPT ![s] = st.pubs]
           /\ cut' = [cut EXCEPT ![s] = @ \/ (KeepRemainder(parts) # <<>>
                                               /\ pos[s] + n < Len(stream[s]))]
    /\ UNCHANGED <<nodes, edges, query, isLoading, pc, stream, uploads, builds>>

\* lines 287-288, 329-351, 367: the reader is done
ReadDone(s) ==
    /\ pc[s] = "read"
    /\ pos[s] = Len(stream[s])
    /\ LET text == Resolve(FlushRemainder(aiResponse[s], buffer[s]))
       IN  /\ chatHistory' = UpdateLast(chatHistory, text, FALSE)
           /\ pubs' = [pubs EXCEPT ![s] = Append(@, Publication(chatHistory, text, FALSE))]
    /\ isLoading' = FALSE
    /\ pc' = [pc EXCEPT ![s] = "Completed"]
    /\ Return(s)
    /\ UNCHANGED <<nodes, edges, query, stream, uploads, builds, cut>>

\* line 287 or 291 throws
ReadThrow(s) ==
    /\ pc[s] = "read"
    /\ Catch(s)

----------------------------------------------------------------------------
(* The other handlers *)

\* the input of the chat modal, line 649, disabled while isLoading
SetQuery(q) ==
    /\ ~isLoading
    /\ query' = q
    /\ UNCHANGED <<nodes, edges, isLoading, chatHistory, pc, stream, pos, buffer,
                   aiResponse, statusMsg, emitted, pubs, uploads, builds, cut>>

\* lines 98-121
OnDrop(type) ==
    /\ nodes' = nodes \cup {type}
    /\ UNCHANGED <<edges, query, isLoading, chatHistory, pc, stream, pos, buffer,
                   aiResponse, statusMsg, emitted, pubs, uploads, builds, cut>>

MaxEdges == 1

\* line 128
OnConnect ==
    /\ edges < MaxEdges
    /\ edges' = edges + 1
    /\ UNCHANGED <<nodes, query, isLoading, chatHistory, pc, stream, pos, buffer,
                   aiResponse, statusMsg, emitted, pubs, uploads, builds, cut>>

\* lines 371-383; the file input is shown for a selected knowledge node and
\* is never disabled
UploadStart(u) ==
    /\ uploads[u] = "idle"
    /\ \A v \in Uploads : v < u => uploads[v] # "idle"
    /\ "knowledgeNode" \in nodes
    /\ isLoading' = TRUE
    /\ uploads' = [uploads EXCEPT ![u] = "fetch"]
    /\ UNCHANGED <<nodes, edges, query, chatHistory, pc, stream, pos, buffer,
                   aiResponse, statusMsg, emitted, pubs, builds, cut>>

\* lines 383-389 and 394-395: the response has come, its body is awaited
UploadResponse(u) ==
    /\ uploads[u] = "fetch"
    /\ uploads' = [uploads EXCEPT ![u] = "json"]
    /\ UNCHANGED <<nodes, edges, query, isLoading, chatHistory, pc, stream, pos,
                   buffer, aiResponse, statusMsg, emitted, pubs, builds, cut>>

\* lines 389-402: the body has come, or an await has thrown
UploadEnd(u) ==
    /\ uploads[u] \in {"fetch", "json"}
    /\ isLoading' = FALSE
    /\ uploads' = [uploads EXCEPT ![u] = "done"]
    /\ UNCHANGED <<nodes, edges, query, chatHistory, pc, stream, pos, buffer,
                   aiResponse, statusMsg, emitted, pubs, builds, cut>>

\* lines 182-211; the button is disabled while isLoading (line 423)
BuildStart(b) ==
    /\ builds[b] = "idle"
    /\ \A c \in Builds : c < b => builds[c] # "idle"
    /\ ~isLoading
    /\ IF ~ValidateWorkflow
       THEN UNCHANGED vars
       ELSE /\ isLoading' = TRUE
            /\ builds' = [builds EXCEPT ![b] = "fetch"]
            /\ UNCHANGED <<nodes, edges, query, chatHistory, pc, stream, pos, buffer,
                           aiResponse, statusMsg, emitted, pubs, uploads, cut>>

\* lines 211-218 and 221-222
BuildResponse(b) ==
    /\ builds[b] = "fetch"
    /\ builds' = [builds EXCEPT ![b] = "json"]
    /\ UNCHANGED <<nodes, edges, query, isLoading, chatHistory, pc, stream, pos,
                   buffer, aiResponse, statusMsg, emitted, pubs, uploads, cut>>

\* lines 218-229
BuildEnd(b) ==
    /\ builds[b] \in {"fetch", "json"}
    /\ isLoading' = FALSE
    /\ builds' = [builds EXCEPT ![b] = "done"]
    /\ UNCHANGED <<nodes, edges, query, chatHistory, pc, stream, pos, buffer,
                   aiResponse, statusMsg, emitted, pubs, uploads, cut>>

----------------------------------------------------------------------------
(* Specifications *)

Details == {<<>>, <<"d">>}

Locals ==
    /\ pc = [s \in Sessions |-> "idle"]
    /\ pos = [s \in Sessions |-> 0]
    /\ buffer = [s \in Sessions |-> <<>>]
    /\ aiResponse = [s \in Sessions |-> <<>>]
    /\ statusMsg = [s \in Sessions |-> <<>>]
    /\ emitted = [s \in Sessions |-> <<>>]
    /\ pubs = [s \in Sessions |-> <<>>]
    /\ cut = [s \in Sessions |-> FALSE]
    /\ uploads = [u \in Uploads |-> "idle"]
    /\ builds = [b \in Builds |-> "idle"]
    /\ isLoading = FALSE
    /\ chatHistory = <<AiMessage(0, Greeting, FALSE)>>

\* the application as it starts (lines 71-83); the server's bodies are chosen
Init ==
    /\ nodes = {}
    /\ edges = 0
    /\ query = <<>>
    /\ stream \in [Sessions -> AppBodies]
    /\ Locals

Session(s) ==
    \/ ChatSubmit(s)
    \/ FetchOk(s)
    \/ FetchNotOk(s)
    \/ FetchThrow(s)
    \/ \E detail \in Details : ErrorBody(s, detail)
    \/ ErrorBodyThrow(s)
    \/ \E n \in 0..Len(stream[s]) : ReadChunk(s, n)
    \/ ReadDone(s)
    \/ ReadThrow(s)

Next ==
    \/ \E s \in Sessions : Session(s)
    \/ \E q \in Queries : SetQuery(q)
    \/ \E type \in NodeTypes : OnDrop(type)
    \/ OnConnect
    \/ \E u \in Uploads : UploadStart(u) \/ UploadResponse(u) \/ UploadEnd(u)
    \/ \E b \in Builds : BuildStart(b) \/ BuildResponse(b) \/ BuildEnd(b)

Spec == Init /\ [][Next]_vars

\* one chat turn on a built workflow, over every body of at most MaxItems items
InitStream ==
    /\ nodes = {"inputNode", "llmNode", "outputNode"}
    /\ edges = 1
    /\ query = <<"q">>
    /\ \E body \in Bodies(MaxItems) :
           stream = [s \in Sessions |-> IF s = 1 THEN body ELSE <<>>]
    /\ Locals

NextStream == Session(1)

SpecStream == InitStream /\ [][NextStream]_vars

\* the chat alone, from the application as it starts: the workflow is edited,
\* the query typed, and the turns follow one another
NextChat ==
    \/ \E s \in Sessions : Session(s)
    \/ \E q \in Queries : SetQuery(q)
    \/ \E type \in NodeTypes : OnDrop(type)
    \/ OnConnect

SpecChat == Init /\ [][NextChat]_vars

\* every await of handleChatSubmit settles: fetch resolves or rejects, the
\* error body is parsed or the parse throws, and the reader reports the end of
\* the stream or throws
Settles(s) ==
    /\ WF_vars(FetchOk(s) \/ FetchNotOk(s) \/ FetchThrow(s))
    /\ WF_vars((\E detail \in Details : ErrorBody(s, detail)) \/ ErrorBodyThrow(s))
    /\ WF_vars(ReadDone(s) \/ ReadThrow(s))

FairSpecChat == SpecChat /\ \A s \in Sessions : Settles(s)

----------------------------------------------------------------------------
(* What a body holds, computed on the whole text *)

\* the parts of a text that a delimiter ends, and the part that none ends
Terminated(text) == LET parts == Split(text) IN SubSeq(parts, 1, Len(parts) - 1)
Remainder(text) == LET parts == Split(text) IN parts[Len(parts)]

\* the records of a text: its terminated parts, trimmed, the empty ones left out
Records(text) ==
    LET parts == Terminated(text)
    IN  SelectSeq([i \in 1..Len(parts) |-> Trim(parts[i])], LAMBDA line : line # <<>>)

IsContent(line) == StartsWith(line, DataPrefix)
IsFinal(line) == StartsWith(line, FinalPrefix)

\* the unescaped payloads of the Content records among lines, in order
ContentPayloads(lines) ==
    LET content == SelectSeq(lines, IsContent)
    IN  [i \in 1..Len(content) |-> ReplaceEscapedNewlines(Substring(content[i], 6))]

RECURSIVE Concat(_)
Concat(seqs) == IF seqs = <<>> THEN <<>> ELSE Head(seqs) \o Concat(Tail(seqs))

EndsWith(s, suffix) ==
    Len(s) >= Len(suffix) /\ SubSeq(s, Len(s) - Len(suffix) + 1, Len(s)) = suffix

\* the whole text handed to the record loop as one chunk
WholeRun(text) ==
    ProcessParts([aiResponse |-> <<>>, statusMsg |-> <<>>,
                  chatHistory |-> <<AiMessage(0, <<>>, TRUE)>>, pubs |-> <<>>],
                 Split(text), 1)

\* the text of the Completed message when the whole text comes as one chunk
WholeResolved(text) ==
    Resolve(FlushRemainder(WholeRun(text).aiResponse, Remainder(text)))

TextsOf(publications) == [i \in 1..Len(publications) |-> publications[i].text]
InProgress(publications) == SelectSeq(publications, LAMBDA p : p.streaming)

\* the text a call has been given so far; the whole body once it has completed
Seen(s) == IF pc[s] = "Completed" THEN stream[s] ELSE Consumed(s)

\* the records of a text and what is left after its last delimiter
AllLines(text) == Records(text) \o <<Trim(Remainder(text))>>

\* the unescaped payloads of all the Content records of a text
AllContentPayloads(text) == ContentPayloads(AllLines(text))

\* a Content record of the text is followed, later, by a Final record
FinalAfterContent(text) ==
    LET lines == AllLines(text)
    IN  \E i, j \in 1..Len(lines) : i < j /\ IsContent(lines[i]) /\ IsFinal(lines[j])

\* the only record of the text is `final: No response`, ended by a delimiter
LoneSentinel(text) ==
    /\ Records(text) = <<FinalPrefix \o NoResponse>>
    /\ Trim(Remainder(text)) = <<>>

\* the texts of lines 354-364
IsErrorText(text) ==
    text = ConnectError \/ (text # <<>> /\ Head(text) = ErrorPrefix)

\* the AI messages of chatHistory that the call s appended
AiEntries(s) ==
    {i \in 1..Len(chatHistory) : chatHistory[i].role = "ai" /\ chatHistory[i].turn = s}

\* a record that is neither Content nor Final: Status or Unknown
IsInert(line) == line # <<>> /\ ~IsContent(line) /\ ~IsFinal(line)

\* the lines given to the record loop one after the other, nothing left over
RunLines(lines) ==
    ProcessParts([aiResponse |-> <<>>, statusMsg |-> <<>>,
                  chatHistory |-> <<AiMessage(0, <<>>, TRUE)>>, pubs |-> <<>>],
                 lines \o << <<>> >>, 1)

\* the records of a text with its Status and Unknown records taken out
ActiveRecords(text) == SelectSeq(Records(text), LAMBDA line : ~IsInert(line))

\* what is left after the last delimiter, unless it is a Status or Unknown record
ActiveRemainder(text) ==
    LET line == Trim(Remainder(text)) IN IF IsInert(line) THEN <<>> ELSE line

\* the payload of a Final record is usable: not empty and not the sentinel
UsableFinal(line) ==
    /\ IsFinal(line)
    /\ Trim(Substring(line, 7)) # <<>>
    /\ Trim(Substring(line, 7)) # NoResponse

\* the text holds no Content record and no Final record with a usable payload
NothingUsable(text) ==
    LET lines == AllLines(text)
    IN  \A i \in 1..Len(lines) : ~IsContent(lines[i]) /\ ~UsableFinal(lines[i])

\* the call has ended, one way or the other
Terminal(s) == pc[s] \in {"Completed", "Failed"}

\* the final updates (line 343) that the call s has made
Completions(s) == SelectSeq(pubs[s], LAMBDA p : ~p.streaming)

\* the error messages (lines 354, 362) that the call s has appended
Failures(s) == {i \in AiEntries(s) : IsErrorText(chatHistory[i].content)}

\* the places of a payload where a backslash is followed by n
EscapeStarts(p) == {i \in 1..(Len(p) - 1) : p[i] = BS /\ p[i + 1] = "n"}

\* the payload with a newline at each such place, the n that follows it left
\* out, and every other character as it is
Unescaped(p) ==
    LET starts == EscapeStarts(p)
        kept == {i \in 1..Len(p) : (i - 1) \notin starts}
        place(k) == CHOOSE i \in kept : Cardinality({j \in kept : j <= i}) = k
    IN  [k \in 1..Cardinality(kept) |->
            IF place(k) \in starts THEN NL ELSE p[place(k)]]

\* what a chat submit needs: a query that is not blank, and a workflow with
\* an input node, an output node, an LLM node and an edge
Prerequisites ==
    /\ \E i \in 1..Len(query) : ~IsSpace(query[i])
    /\ {"inputNode", "outputNode", "llmNode"} \subseteq nodes
    /\ edges >= 1

\* no call of handleChatSubmit is between its first and its last statement
NoCallRunning == \A s \in Sessions : pc[s] \in {"idle", "Completed", "Failed"}

----------------------------------------------------------------------------
(* Claims *)

\* C1: split associativity.  While a call reads, the parts its splits have
\* yielded so far, followed by its buffer, are exactly the parts of one split of
\* all the text it has been given, however that text was cut into chunks.
SplitAssociativity ==
    \A s \in Sessions :
        pc[s] = "read" => emitted[s] \o <<buffer[s]>> = Split(Consumed(s))

\* C1 witness: a record has been yielded and the last chunk ended between the
\* two newlines of a delimiter.
SplitAssociativityWitness ==
    /\ pc[1] = "read"
    /\ emitted[1] # <<>>
    /\ buffer[1] # <<>> /\ buffer[1][Len(buffer[1])] = NL
    /\ pos[1] < Len(stream[1]) /\ stream[1][pos[1] + 1] = NL
    /\ pos[1] >= 2 /\ stream[1][pos[1] - 1] # NL

\* C2: fragmentation independence.  The texts a call has published are those
\* the record loop publishes when all the text comes as one chunk, and the
\* Completed text is the one resolved from the whole body.
FragmentationIndependence ==
    \A s \in Sessions :
        /\ pc[s] = "read" => TextsOf(pubs[s]) = TextsOf(WholeRun(Consumed(s)).pubs)
        /\ pc[s] = "Completed" =>
               TextsOf(pubs[s]) = Append(TextsOf(WholeRun(stream[s]).pubs),
                                         WholeResolved(stream[s]))

\* C2 witness: a call has completed with two in-progress publications, after a
\* chunk had ended inside a record.
FragmentationIndependenceWitness ==
    /\ pc[1] = "Completed"
    /\ cut[1]
    /\ Len(InProgress(pubs[1])) >= 2

\* C3 (as claimed): the last in-progress snapshot a reading call has published
\* is the concatenation of the unescaped payloads of the Content records it
\* has processed, and nothing else.
SnapshotIsContentOnly ==
    \A s \in Sessions :
        pc[s] = "read" /\ pubs[s] # <<>> =>
            pubs[s][Len(pubs[s])].text = Concat(ContentPayloads(Records(Consumed(s))))

\* C4 (as claimed): a call that completes after a Content record followed by a
\* Final record has the concatenated Content payloads as its Completed text.
FallbackPrecedence ==
    \A s \in Sessions :
        pc[s] = "Completed" /\ FinalAfterContent(stream[s]) =>
            \A i \in AiEntries(s) :
                chatHistory[i].content = Concat(AllContentPayloads(stream[s]))

\* C5: sentinel suppression.  A body whose only record is `final: No response`,
\* ended by a delimiter, completes with "No response generated.".
SentinelSuppression ==
    \A s \in Sessions :
        pc[s] = "Completed" /\ LoneSentinel(stream[s]) =>
            /\ AiEntries(s) # {}
            /\ \A i \in AiEntries(s) : chatHistory[i].content = NoResponseGenerated

\* C5 witness: such a call has completed, after a chunk had ended inside the
\* record.
SentinelSuppressionWitness ==
    /\ pc[1] = "Completed"
    /\ LoneSentinel(stream[1])
    /\ cut[1]

\* C6 (as claimed): a body that ends with an unfinished record completes with
\* the text it completes with when a delimiter follows it.
FlushEquivalence ==
    \A s \in Sessions :
        pc[s] = "Completed" /\ Trim(Remainder(stream[s])) # <<>> =>
            \A i \in AiEntries(s) :
                chatHistory[i].content = WholeResolved(stream[s] \o Delimiter)

\* C7 (as claimed): a failed call leaves one AI message for its turn, the
\* error description, and no message that is still streaming.
FailureReplacesBubble ==
    \A s \in Sessions :
        pc[s] = "Failed" =>
            /\ Cardinality(AiEntries(s)) = 1
            /\ \A i \in AiEntries(s) :
                   /\ ~chatHistory[i].isStreaming
                   /\ IsErrorText(chatHistory[i].content)

\* C8 (as claimed): at most one call is reading its response.
OneSessionStreaming ==
    Cardinality({s \in Sessions : pc[s] = "read"}) <= 1

\* C9 (as claimed): every update of a call replaced the AI message that the
\* call itself appended.
PublicationsIsolated ==
    \A s \in Sessions :
        \A i \in 1..Len(pubs[s]) : pubs[s][i].target = s

MonotonicPublications ==
    \A s \in Sessions :
        \A i \in 1..(Len(pubs[s]) - 1) :
            /\ Len(pubs[s][i].text) <= Len(pubs[s][i + 1].text)
            /\ SubSeq(pubs[s][i + 1].text, 1, Len(pubs[s][i].text)) = pubs[s][i].text

\* C11 witness: a call has completed with a text longer than its last
\* in-progress text, after a chunk had ended inside a record.
MonotonicPublicationsWitness ==
    /\ pc[1] = "Completed"
    /\ cut[1]
    /\ Len(pubs[1]) = 2
    /\ pubs[1][1].streaming
    /\ Len(pubs[1][2].text) > Len(pubs[1][1].text)

\* C12: Status and Unknown records are inert.  What a call has published, the
\* text it has accumulated and the text it completes with are those of the same
\* body with every Status and Unknown record taken out, whether a delimiter ends
\* the record or the body ends in it.
StatusAndUnknownInert ==
    \A s \in Sessions :
        pc[s] \in {"read", "Completed"} =>
            LET run == RunLines(ActiveRecords(Seen(s)))
            IN  /\ TextsOf(InProgress(pubs[s])) = TextsOf(run.pubs)
                /\ pc[s] = "read" => aiResponse[s] = run.aiResponse
                /\ pc[s] = "Completed" =>
                       pubs[s][Len(pubs[s])].text =
                           Resolve(FlushRemainder(run.aiResponse, ActiveRemainder(stream[s])))

\* C12 witness: a call has read a Status record after a Content record, and its
\* accumulated text is still the Content payload.
StatusAndUnknownInertWitness ==
    /\ pc[1] = "read"
    /\ pos[1] = Len(stream[1])
    /\ statusMsg[1] = <<"t">>
    /\ aiResponse[1] = <<"a">>
    /\ Len(pubs[1]) = 1

\* C13: no empty result.  The text of a Completed call is never empty, and it is
\* the fallback text exactly when the body held no Content record and no Final
\* record with a usable payload.
NoEmptyResult ==
    \A s \in Sessions :
        pc[s] = "Completed" =>
            LET text == pubs[s][Len(pubs[s])].text
            IN  /\ text # <<>>
                /\ text = NoResponseGenerated <=> NothingUsable(stream[s])

\* C14: completion agrees with the last in-progress snapshot.  When the body
\* ends on a record boundary and holds a Content record, the Completed message
\* has the text of the last in-progress publication and is not streaming.
CompletionAgreesWithSnapshot ==
    \A s \in Sessions :
        ( /\ pc[s] = "Completed"
          /\ Remainder(stream[s]) = <<>>
          /\ SelectSeq(Records(stream[s]), IsContent) # <<>> ) =>
            LET n == Len(pubs[s])
            IN  /\ n >= 2
                /\ pubs[s][n - 1].streaming
                /\ ~pubs[s][n].streaming
                /\ pubs[s][n].text = pubs[s][n - 1].text
                /\ \A i \in AiEntries(s) :
                       /\ chatHistory[i].content = pubs[s][n - 1].text
                       /\ ~chatHistory[i].isStreaming

\* C14 witness: a body of a Content record and a Status record, each ended by a
\* delimiter, was read in chunks that cut a record, and the call has completed.
CompletionAgreesWithSnapshotWitness ==
    /\ pc[1] = "Completed"
    /\ cut[1]
    /\ stream[1] = ItemDataA \o ItemStatusDone
    /\ Len(pubs[1]) = 2
    /\ AiEntries(1) # {}

\* C15: terminal states are final.  A call that is Completed has made exactly
\* one final update, its last; a call that is not Completed has made none.  The
\* step that makes a call Failed appends one error message of the call and makes
\* no update, no other step adds an error message of the call, and once a call
\* is Completed or Failed it stays so, makes no further update and processes no
\* further record.
TerminalStatesFinal ==
    /\ [](\A s \in Sessions :
            /\ pc[s] = "Completed" =>
                   /\ Len(Completions(s)) = 1
                   /\ ~pubs[s][Len(pubs[s])].streaming
            /\ pc[s] # "Completed" => Completions(s) = <<>>)
    /\ [][\A s \in Sessions :
            /\ Terminal(s) =>
                   /\ pc'[s] = pc[s]
                   /\ pubs'[s] = pubs[s]
                   /\ pos'[s] = pos[s]
                   /\ emitted'[s] = emitted[s]
                   /\ aiResponse'[s] = aiResponse[s]
            /\ (~Terminal(s) /\ pc'[s] = "Failed") =>
                   /\ pubs'[s] = pubs[s]
                   /\ \E m \in {chatHistory'[Len(chatHistory')]} :
                          /\ chatHistory' = Append(chatHistory, m)
                          /\ m.turn = s
                          /\ IsErrorText(m.content)
            /\ Cardinality(Failures(s)') > Cardinality(Failures(s)) =>
                   ~Terminal(s) /\ pc'[s] = "Failed"]_vars

\* C15 witness: the first call has completed, and after it a second call has
\* run and failed while it was reading.
TerminalStatesFinalWitness ==
    /\ pc[1] = "Completed"
    /\ pc[2] = "Failed"
    /\ Len(chatHistory) = 6

\* C16: escape handling.  Each in-progress text is the text before it followed
\* by the payload of its Content record in which every backslash-n pair is one
\* newline and every other character is unchanged; so is the Completed text
\* when the body ends in a Content record.
EscapeHandling ==
    \A s \in Sessions :
        pc[s] \in {"read", "Completed"} =>
            LET lines == SelectSeq(Records(Seen(s)), IsContent)
                shown == InProgress(pubs[s])
                rest == Trim(Remainder(stream[s]))
                noFinal == \A i \in 1..Len(AllLines(Seen(s))) : ~IsFinal(AllLines(Seen(s))[i])
            IN  /\ Len(shown) = Len(lines)
                /\ \A i \in 1..Len(lines) :
                       LET payload == Unescaped(Substring(lines[i], 6))
                       IN  IF i > 1 THEN shown[i].text = shown[i - 1].text \o payload
                           ELSE /\ EndsWith(shown[i].text, payload)
                                /\ noFinal => shown[i].text = payload
                /\ (pc[s] = "Completed" /\ IsContent(rest)) =>
                       LET payload == Unescaped(Substring(rest, 6))
                           text == pubs[s][Len(pubs[s])].text
                       IN  IF shown # <<>> THEN text = shown[Len(shown)].text \o payload
                           ELSE /\ EndsWith(text, payload)
                                /\ noFinal => text = payload

\* C16 witness: a payload with two backslashes, n, backslash, t has been shown
\* as a backslash, a newline, a backslash and t.
EscapeHandlingWitness ==
    /\ pc[1] = "read"
    /\ cut[1]
    /\ pubs[1] # <<>>
    /\ pubs[1][1].text = <<BS, NL, BS, "t">>

\* C17: the streaming flag is cleared on termination.  A message of chatHistory
\* has isStreaming only while the call that appended it is reading its stream;
\* so when no call is reading, no message has it.
StreamingFlagCleared ==
    \A i \in 1..Len(chatHistory) :
        chatHistory[i].isStreaming =>
            /\ chatHistory[i].turn \in Sessions
            /\ pc[chatHistory[i].turn] = "read"

\* C18: validation gate.  A call leaves its idle state only when the query is
\* not blank and the workflow has its input, output and LLM nodes and an edge,
\* and it then appends the user message, clears the query, sets isLoading and
\* awaits the fetch; while these prerequisites fail and no call is running, no
\* step changes chatHistory or isLoading, clears the query or starts a call.
ValidationGate ==
    [][/\ \A s \in Sessions :
              (pc[s] = "idle" /\ pc'[s] # "idle") =>
                  /\ Prerequisites
                  /\ pc'[s] = "fetch"
                  /\ chatHistory' = Append(chatHistory, UserMessage(s, query))
                  /\ query' = <<>>
                  /\ isLoading'
       /\ (NoCallRunning /\ ~Prerequisites) =>
              /\ pc' = pc
              /\ chatHistory' = chatHistory
              /\ isLoading' = isLoading
              /\ query' = <<>> => query = <<>>]_vars

\* C18 witness: the form can be submitted with a query that is not blank on a
\* workflow that has its three nodes and no edge, and the submit is rejected.
ValidationGateWitness ==
    /\ NoCallRunning
    /\ ~isLoading
    /\ query = <<"q">>
    /\ {"inputNode", "outputNode", "llmNode"} \subseteq nodes
    /\ edges = 0
    /\ Len(chatHistory) = 1

\* C19: every started call releases the loading flag.  When every await of the
\* call settles, a call that has set isLoading and awaits its fetch eventually
\* is Completed or Failed, and the step that makes it so leaves isLoading false.
LoadingFlagReleased ==
    /\ \A s \in Sessions : (pc[s] = "fetch" /\ isLoading) ~> Terminal(s)
    /\ [][\A s \in Sessions : (~Terminal(s) /\ Terminal(s)') => ~isLoading']_vars

\* C19 witness: a call whose fetch answered with a status that is not ok has
\* appended the error of the body and left isLoading false.
LoadingFlagReleasedWitness ==
    /\ pc[1] = "Failed"
    /\ pc[2] = "idle"
    /\ ~isLoading
    /\ chatHistory[Len(chatHistory)].content = <<ErrorPrefix, "d">>

====
